---- MODULE Spec2Model ----
(***************************************************************************)
(* DoQui dashboard front end (src/app.js): the WebSocket client with its   *)
(* reconnect timer, the message router that folds inbound messages into    *)
(* the shared `state` record and the audio-derived animation targets, the  *)
(* status presenters that project `state` onto the page, and the agent     *)
(* start/stop control.  Every handler runs to completion on the single     *)
(* JavaScript thread, so every handler is one atomic action.               *)
(***************************************************************************)
EXTENDS Integers, Sequences, FiniteSets

\* ------------------------------------------------------------------ bounds
\* Socket objects that can exist at once in the model (closed ones are
\* garbage and their slot is reused by the next `new WebSocket`).
NSlots == 2
\* Outbound command frames recorded before the control is no longer pressed.
MaxSent == 1
\* Inbound messages recorded in the handled-message history.
MaxLog == 3
\* Frames drawn when frames interleave with every other event.
MaxFrames == 2
\* Frames drawn when the orbits are followed on their own.
MaxOrbitFrames == 70
\* Frames drawn, and audio messages handled, when the smoothing is followed.
MaxSmoothFrames == 33
MaxAudio == 2
\* Commands sent when toggles repeat.
MaxToggles == 2

\* --------------------------------------------------------------- constants
\* setTimeout(connect, 2000)
ReconnectDelay == 2000
\* Granularity with which the model lets time pass.
TickMs == ReconnectDelay \div 2

\* ------------------------------------------------------- rational numbers
\* JavaScript numbers that occur here are small exact fractions; they are
\* kept as normalised fractions n/d with d > 0.
RECURSIVE GCD(_, _)
GCD(a, b) == IF b = 0 THEN a ELSE GCD(b, a % b)

Abs(x) == IF x < 0 THEN -x ELSE x

Rat(n, d) ==
    LET g == GCD(Abs(n), Abs(d))
        s == IF d < 0 THEN -1 ELSE 1
    IN  [n |-> (s * n) \div g, d |-> (s * d) \div g]

RInt(k) == [n |-> k, d |-> 1]
RLeq(a, b) == a.n * b.d <= b.n * a.d
RMul(a, b) == Rat(a.n * b.n, a.d * b.d)
RAdd(a, b) == Rat(a.n * b.d + b.n * a.d, a.d * b.d)
\* Math.max / Math.min on two numbers
MathMax(a, b) == IF RLeq(a, b) THEN b ELSE a
MathMin(a, b) == IF RLeq(a, b) THEN a ELSE b
\* Variant: Math.floor(x * 100)
FloorTimes100(x) == (100 * x.n) \div x.d

\* Math.round(x * 100): nearest integer, halves rounded up
RoundTimes100(x) == (2 * 100 * x.n + x.d) \div (2 * x.d)

\* ---------------------------------------------------- long natural numbers
\* The smoothed sun radius gains a decimal digit with every frame; its
\* numerator and denominator are naturals of any length, kept as sequences
\* of base-10000 digits, least significant first, without leading zeros.
Base == 10000

RECURSIVE BigOfNat(_)
BigOfNat(k) == IF k = 0 THEN <<>> ELSE <<k % Base>> \o BigOfNat(k \div Base)

RECURSIVE BigMulCarry(_, _, _)
BigMulCarry(a, k, c) ==
    IF a = <<>> THEN BigOfNat(c)
    ELSE <<(a[1] * k + c) % Base>>
            \o BigMulCarry(Tail(a), k, (a[1] * k + c) \div Base)

\* a * k for a small natural k
BigMulSmall(a, k) == IF k = 0 THEN <<>> ELSE BigMulCarry(a, k, 0)

RECURSIVE BigAddCarry(_, _, _)
BigAddCarry(a, b, c) ==
    IF a = <<>> /\ b = <<>> THEN BigOfNat(c)
    ELSE LET x == IF a = <<>> THEN 0 ELSE a[1]
             y == IF b = <<>> THEN 0 ELSE b[1]
             ra == IF a = <<>> THEN <<>> ELSE Tail(a)
             rb == IF b = <<>> THEN <<>> ELSE Tail(b)
         IN  <<(x + y + c) % Base>>
                \o BigAddCarry(ra, rb, (x + y + c) \div Base)

BigAdd(a, b) == BigAddCarry(a, b, 0)

RECURSIVE BigLessFrom(_, _, _)
BigLessFrom(a, b, i) ==
    IF i = 0 THEN FALSE
    ELSE IF a[i] # b[i] THEN a[i] < b[i]
    ELSE BigLessFrom(a, b, i - 1)

BigLess(a, b) ==
    IF Len(a) # Len(b) THEN Len(a) < Len(b) ELSE BigLessFrom(a, b, Len(a))

RECURSIVE BigStrip(_)
BigStrip(a) ==
    IF a = <<>> THEN <<>>
    ELSE IF a[Len(a)] = 0 THEN BigStrip(SubSeq(a, 1, Len(a) - 1))
    ELSE a

RECURSIVE BigSubBorrow(_, _, _)
BigSubBorrow(a, b, c) ==
    IF a = <<>> THEN <<>>
    ELSE LET y == (IF b = <<>> THEN 0 ELSE b[1]) + c
             rb == IF b = <<>> THEN <<>> ELSE Tail(b)
         IN  IF a[1] >= y
               THEN <<a[1] - y>> \o BigSubBorrow(Tail(a), rb, 0)
               ELSE <<a[1] + Base - y>> \o BigSubBorrow(Tail(a), rb, 1)

\* |a - b|
BigAbsDiff(a, b) ==
    IF BigLess(a, b) THEN BigStrip(BigSubBorrow(b, a, 0))
    ELSE BigStrip(BigSubBorrow(a, b, 0))

RECURSIVE BigMul(_, _)
BigMul(a, b) ==
    IF a = <<>> \/ b = <<>> THEN <<>>
    ELSE BigAdd(BigMulSmall(a, b[1]),
                IF BigMul(a, Tail(b)) = <<>> THEN <<>>
                ELSE <<0>> \o BigMul(a, Tail(b)))

\* ---------------------------------------------------------------- inputs
\* Audio levels the backend reports (dB-like; below, at and above the
\* clamping points of both derived quantities).
Levels == {-90, -80, -60, -30, 0}
\* Speaker verification scores.
Scores == {Rat(0, 1), Rat(1, 8), Rat(87, 100)}

StateMsgs ==
    [type : {"state"}, running : BOOLEAN, speaker_verified : BOOLEAN,
     speaker_score : Scores, vad_speaking : BOOLEAN]
StatusMsgs == [type : {"status"}, running : BOOLEAN]
SpeakerMsgs == [type : {"speaker"}, verified : BOOLEAN, score : Scores]
VadMsgs == [type : {"vad"}, speaking : BOOLEAN]
AudioMsgs == [type : {"audio"}, level : Levels]
\* A type this client does not know, and an object with no type field.
UnknownMsgs == {[type |-> "ping"], [running |-> TRUE]}

Msgs == StateMsgs \cup StatusMsgs \cup SpeakerMsgs \cup VadMsgs
            \cup AudioMsgs \cup UnknownMsgs

\* msg.type (undefined when the field is absent)
TypeOf(m) == IF "type" \in DOMAIN m THEN m.type ELSE "undefined"

NoMsg == [none |-> TRUE]

\* ----------------------------------------------------------------- state
VARIABLES
    loaded,           \* DOMContentLoaded has fired
    ws,               \* slot of the socket `ws` refers to, 0 for null
    sock,             \* per slot: the life-cycle position of that socket
    timers,           \* pending setTimeout(connect, ...) : remaining ms each
    state,            \* the `state` record
    animationSpeed,
    targetSunRadius,
    agentView,        \* #agent-status / #toggle-btn
    speakerView,      \* #speaker-badge and #score-fill
    vadView,          \* #vad-indicator
    connView,         \* #connection-status
    sent,             \* frames handed to ws.send, in order
    console,          \* the last console line
    lastMsg,          \* the message most recently handed to handleMessage
    repeated,         \* that message equalled the one handled just before it
    handled,          \* history: the messages handled so far, in order
    sunRadius,        \* the smoothed radius, a fraction of long naturals
    sunPulse,
    planets,          \* per planet: the angle, as quarters of pi plus acc
    glowTier,         \* colour ramp of the glow layers in the last frame
    rafPending,       \* requestAnimationFrame callbacks waiting to run
    frameNo,          \* frames drawn so far
    runStart,         \* sunRadius when the current target value took effect
    runLen,           \* frames drawn since then
    backendUp,        \* environment: the backend accepts connections
    refused           \* environment: a connection attempt has been refused

vars == <<loaded, ws, sock, timers, state, animationSpeed, targetSunRadius,
          agentView, speakerView, vadView, connView, sent, console, lastMsg,
          repeated, handled, sunRadius, sunPulse, planets, glowTier,
          rafPending, frameNo, runStart, runLen, backendUp, refused>>

connVars == <<loaded, ws, sock, timers, connView>>
signalVars == <<state, animationSpeed, targetSunRadius>>
viewVars == <<agentView, speakerView, vadView>>
msgVars == <<lastMsg, repeated, handled>>
renderVars == <<sunRadius, sunPulse, planets, glowTier, rafPending, frameNo>>
runVars == <<runStart, runLen>>
envVars == <<backendUp, refused>>

Slots == 1..NSlots
\* A socket that has been created and whose close event has not been handled.
Live == {"CONNECTING", "OPEN", "FAILED"}
LiveSlots == {s \in Slots : sock[s] \in Live}

\* ------------------------------------------------------------ presenters
\* updateAgentStatus: what it writes for a given state record
AgentStatusOf(st) == IF st.running THEN "online" ELSE "offline"

\* updateSpeakerStatus
SpeakerStatusOf(st) ==
    [percent |-> RoundTimes100(st.speakerScore),
     badge   |-> IF ~st.running THEN "unknown"
                 ELSE IF st.speakerVerified THEN "verified"
                 ELSE "locked"]

\* updateVADStatus
VADStatusOf(st) == IF st.vadSpeaking THEN "speaking" ELSE "silent"

\* Variant of updateConnectionStatus with the two branches exchanged.
ConnectionStatusOfInverted(connected) ==
    IF connected THEN "disconnected" ELSE "connected"

\* updateConnectionStatus(connected)
ConnectionStatusOf(connected) ==
    IF connected THEN "connected" ELSE "disconnected"

InitialState ==
    [running |-> FALSE, speakerVerified |-> FALSE, speakerScore |-> RInt(0),
     audioLevel |-> -80, vadSpeaking |-> FALSE]

\* ---------------------------------------------------------------- renderer
\* The planets array: speed of each body, and its starting angle in
\* quarters of pi (0, PI / 4, PI / 2, PI * 0.75, PI, ...).
Planets == 1..8
PlanetSpeed ==
    <<Rat(4, 100), Rat(3, 100), Rat(25, 1000), Rat(2, 100), Rat(12, 1000),
      Rat(9, 1000), Rat(6, 1000), Rat(4, 1000)>>
InitialPlanets == [p \in Planets |-> [quarters |-> p - 1, acc |-> RInt(0)]]

\* Variant of the speed choice that tests running before vadSpeaking.
SpeedMultiplierRunningFirst(st, speed) ==
    IF st.running THEN speed
    ELSE IF st.vadSpeaking THEN RInt(3) ELSE Rat(3, 10)

\* speedMultiplier = vadSpeaking ? 3 : (running ? animationSpeed : 0.3)
SpeedMultiplier(st, speed) ==
    IF st.vadSpeaking THEN RInt(3)
    ELSE IF st.running THEN speed ELSE Rat(3, 10)

\* Variant that takes a full turn off an angle that has passed 2 pi (passed
\* it for certain: 3.1416 is more than pi).
PlanetsAfterWrapping(ps, m) ==
    [p \in Planets |->
        LET acc == RAdd(ps[p].acc, RMul(PlanetSpeed[p], m))
        IN  IF acc.n * 40000 >= (8 - ps[p].quarters) * 31416 * acc.d
              THEN [quarters |-> ps[p].quarters - 8, acc |-> acc]
              ELSE [quarters |-> ps[p].quarters, acc |-> acc]]

\* planet.angle += planet.speed * speedMultiplier, for every planet
PlanetsAfter(ps, m) ==
    [p \in Planets |->
        [ps[p] EXCEPT !.acc = RAdd(@, RMul(PlanetSpeed[p], m))]]

\* Variant of the glow choice that tests speakerVerified first.
GlowTierVerifiedFirst(st) ==
    IF st.speakerVerified THEN "verified"
    ELSE IF st.vadSpeaking THEN "speaking"
    ELSE IF st.running THEN "running" ELSE "idle"

\* The if / else-if chain of the outer glow layers.
GlowTierOf(st) ==
    IF st.vadSpeaking THEN "speaking"
    ELSE IF st.speakerVerified THEN "verified"
    ELSE IF st.running THEN "running" ELSE "idle"

\* Variant of the smoothing with a factor of 0.05.
SmoothedSlowly(r, target) ==
    [n |-> BigAdd(BigMulSmall(r.n, 19 * target.d),
                  BigMulSmall(r.d, target.n)),
     d |-> BigMulSmall(r.d, 20 * target.d)]

\* sunRadius += (targetSunRadius - sunRadius) * 0.1, that is
\* (9 * sunRadius + targetSunRadius) / 10, on fractions n / d.
Smoothed(r, target) ==
    [n |-> BigAdd(BigMulSmall(r.n, 9 * target.d),
                  BigMulSmall(r.d, target.n)),
     d |-> BigMulSmall(r.d, 10 * target.d)]

\* Variant of the last statement of a frame that requests nothing.
RequestedNone == <<>>

\* requestAnimationFrame(drawSolarSystem), the last statement of a frame:
\* the callbacks it adds to the pending ones.
Requested == <<"drawSolarSystem">>

\* The first frame is drawn while the script loads, before any event.
FirstSunRadius ==
    Smoothed([n |-> BigOfNat(18), d |-> BigOfNat(1)], RInt(18))

Init ==
    /\ loaded = FALSE
    /\ ws = 0
    /\ sock = [s \in Slots |-> "NONE"]
    /\ timers = <<>>
    /\ state = InitialState
    /\ animationSpeed = RInt(1)
    /\ targetSunRadius = RInt(18)
    /\ agentView = AgentStatusOf(InitialState)
    /\ speakerView = SpeakerStatusOf(InitialState)
    /\ vadView = VADStatusOf(InitialState)
    /\ connView = "html"
    /\ sent = <<>>
    /\ console = "none"
    /\ lastMsg = NoMsg
    /\ repeated = FALSE
    /\ handled = <<>>
    /\ sunRadius = FirstSunRadius
    /\ sunPulse = Rat(5, 100)
    /\ planets = PlanetsAfter(InitialPlanets,
                              SpeedMultiplier(InitialState, RInt(1)))
    /\ glowTier = GlowTierOf(InitialState)
    /\ rafPending = Len(Requested)
    /\ frameNo = 1
    /\ runStart = FirstSunRadius
    /\ runLen = 0
    /\ backendUp = TRUE
    /\ refused = FALSE

\* ------------------------------------------------------------ connection
\* The slot `new WebSocket(..)` takes: the first one holding no live socket.
FreeSlots == {s \in Slots : sock[s] \notin Live}
NewSlot == CHOOSE s \in FreeSlots : \A t \in FreeSlots : s <= t

\* connect(): ws = new WebSocket(wsUrl), with the four handlers attached.
connect ==
    /\ FreeSlots # {}
    /\ ws' = NewSlot
    /\ sock' = [sock EXCEPT ![NewSlot] = "CONNECTING"]

\* document.addEventListener('DOMContentLoaded', () => { connect(); })
DOMContentLoaded ==
    /\ ~loaded
    /\ loaded' = TRUE
    /\ connect
    /\ UNCHANGED <<timers, connView, signalVars, viewVars, sent, console,
                   msgVars,
                   renderVars, runVars, envVars>>

\* ws.onopen
OnOpen(s) ==
    /\ sock[s] = "CONNECTING"
    /\ sock' = [sock EXCEPT ![s] = "OPEN"]
    /\ console' = "WebSocket connected"
    /\ connView' = ConnectionStatusOf(TRUE)
    /\ UNCHANGED <<loaded, ws, timers, signalVars, viewVars, sent, msgVars,
                   renderVars, runVars, envVars>>

\* Variants of the scheduling in ws.onclose: none, and one too many.
ScheduledNone == <<>>
ScheduledTwice == <<ReconnectDelay, ReconnectDelay>>

\* The timers that setTimeout(connect, 2000) adds to the pending ones.
Scheduled == <<ReconnectDelay>>

\* Variant of ws.onclose that also puts the state record and the views back
\* to their starting values.
ClosedResetting(s) ==
    /\ sock[s] \in Live
    /\ sock' = [sock EXCEPT ![s] = "CLOSED"]
    /\ console' = "WebSocket disconnected"
    /\ connView' = ConnectionStatusOf(FALSE)
    /\ timers' = timers \o Scheduled
    /\ state' = InitialState
    /\ agentView' = AgentStatusOf(InitialState)
    /\ speakerView' = SpeakerStatusOf(InitialState)
    /\ vadView' = VADStatusOf(InitialState)
    /\ UNCHANGED <<loaded, ws, animationSpeed, targetSunRadius, sent,
                   msgVars, renderVars, runVars>>

\* ws.onclose
Closed(s) ==
    /\ sock[s] \in Live
    /\ sock' = [sock EXCEPT ![s] = "CLOSED"]
    /\ console' = "WebSocket disconnected"
    /\ connView' = ConnectionStatusOf(FALSE)
    /\ timers' = timers \o Scheduled
    /\ UNCHANGED <<loaded, ws, signalVars, viewVars, sent, msgVars,
                   renderVars, runVars>>

OnClose(s) == Closed(s) /\ UNCHANGED envVars

\* Variant of ws.onerror that also schedules a reconnect.
OnErrorReconnecting(s) ==
    /\ sock[s] \in {"CONNECTING", "OPEN"}
    /\ sock' = [sock EXCEPT ![s] = "FAILED"]
    /\ console' = "WebSocket error"
    /\ timers' = timers \o Scheduled
    /\ UNCHANGED <<loaded, ws, connView, signalVars, viewVars, sent,
                   msgVars, renderVars, runVars, envVars>>

\* ws.onerror: the transport has failed the connection; the handler logs.
\* The socket no longer reads OPEN and its close event is still to come.
OnError(s) ==
    /\ sock[s] \in {"CONNECTING", "OPEN"}
    /\ sock' = [sock EXCEPT ![s] = "FAILED"]
    /\ console' = "WebSocket error"
    /\ UNCHANGED <<loaded, ws, timers, connView, signalVars, viewVars, sent,
                   msgVars,
                   renderVars, runVars, envVars>>

\* Time passes: every pending timer comes TickMs closer to firing.
Tick ==
    /\ \E i \in 1..Len(timers) : timers[i] > 0
    /\ timers' = [i \in 1..Len(timers) |->
                    IF timers[i] > TickMs THEN timers[i] - TickMs ELSE 0]
    /\ UNCHANGED <<loaded, ws, sock, connView, signalVars, viewVars, sent,
                   console, msgVars,
                   renderVars, runVars, envVars>>

\* A timer fires once its delay has fully elapsed.
Due(i) == timers[i] = 0

\* Variant in which the timer repeats: it fires and is armed again.
TimerFireRepeating(i) ==
    /\ i \in 1..Len(timers)
    /\ Due(i)
    /\ timers' = [timers EXCEPT ![i] = ReconnectDelay]
    /\ connect
    /\ UNCHANGED <<loaded, connView, signalVars, viewVars, sent, console,
                   msgVars,
                   renderVars, runVars, envVars>>

\* The reconnect timer fires: connect() runs again.
TimerFire(i) ==
    /\ i \in 1..Len(timers)
    /\ Due(i)
    /\ timers' = [j \in 1..(Len(timers) - 1) |->
                    IF j < i THEN timers[j] ELSE timers[j + 1]]
    /\ connect
    /\ UNCHANGED <<loaded, connView, signalVars, viewVars, sent, console,
                   msgVars,
                   renderVars, runVars, envVars>>

\* --------------------------------------------------------- message router
\* Variant of the switch in which `status` does not store running.
StateAfterStatusDropped(m) ==
    CASE TypeOf(m) = "state" ->
            [state EXCEPT !.running = m.running,
                          !.speakerVerified = m.speaker_verified,
                          !.speakerScore = m.speaker_score,
                          !.vadSpeaking = m.vad_speaking]
      [] TypeOf(m) = "speaker" ->
            [state EXCEPT !.speakerVerified = m.verified,
                          !.speakerScore = m.score]
      [] TypeOf(m) = "vad" -> [state EXCEPT !.vadSpeaking = m.speaking]
      [] OTHER -> state

\* Variant in which a `state` message flips vadSpeaking when it carries
\* vad_speaking = true instead of storing the flag.
StateAfterToggling(m) ==
    CASE TypeOf(m) = "state" ->
            [state EXCEPT !.running = m.running,
                          !.speakerVerified = m.speaker_verified,
                          !.speakerScore = m.speaker_score,
                          !.vadSpeaking = (m.vad_speaking # state.vadSpeaking)]
      [] TypeOf(m) = "status" -> [state EXCEPT !.running = m.running]
      [] TypeOf(m) = "speaker" ->
            [state EXCEPT !.speakerVerified = m.verified,
                          !.speakerScore = m.score]
      [] TypeOf(m) = "vad" -> [state EXCEPT !.vadSpeaking = m.speaking]
      [] OTHER -> state

\* Variant with a default branch that resets the record.
StateAfterDefaultReset(m) ==
    CASE TypeOf(m) = "state" ->
            [state EXCEPT !.running = m.running,
                          !.speakerVerified = m.speaker_verified,
                          !.speakerScore = m.speaker_score,
                          !.vadSpeaking = m.vad_speaking]
      [] TypeOf(m) = "status" -> [state EXCEPT !.running = m.running]
      [] TypeOf(m) = "speaker" ->
            [state EXCEPT !.speakerVerified = m.verified,
                          !.speakerScore = m.score]
      [] TypeOf(m) = "vad" -> [state EXCEPT !.vadSpeaking = m.speaking]
      [] TypeOf(m) = "audio" -> state
      [] OTHER -> InitialState

\* handleMessage(msg): the new `state` record
StateAfter(m) ==
    CASE TypeOf(m) = "state" ->
            [state EXCEPT !.running = m.running,
                          !.speakerVerified = m.speaker_verified,
                          !.speakerScore = m.speaker_score,
                          !.vadSpeaking = m.vad_speaking]
      [] TypeOf(m) = "status" -> [state EXCEPT !.running = m.running]
      [] TypeOf(m) = "speaker" ->
            [state EXCEPT !.speakerVerified = m.verified,
                          !.speakerScore = m.score]
      [] TypeOf(m) = "vad" -> [state EXCEPT !.vadSpeaking = m.speaking]
      [] OTHER -> state

\* Variant without the lower clamp.
SpeedForNoFloor(level) == MathMin(RInt(3), Rat(level + 80, 20))

\* animationSpeed = Math.max(0.5, Math.min(3, (level + 80) / 20))
SpeedFor(level) ==
    MathMax(Rat(1, 2), MathMin(RInt(3), Rat(level + 80, 20)))

\* Variant without the floor at 0.
RadiusForNoFloor(level) == RAdd(RInt(15), Rat(level + 60, 3))

\* targetSunRadius = 15 + Math.max(0, (level + 60) / 3)
RadiusFor(level) ==
    RAdd(RInt(15), MathMax(RInt(0), Rat(level + 60, 3)))

\* The views each case of the switch refreshes.
RefreshesAgent(m) == TypeOf(m) \in {"state", "status"}
RefreshesSpeaker(m) == TypeOf(m) \in {"state", "speaker"}
RefreshesVAD(m) == TypeOf(m) \in {"state", "vad"}

handleMessage(m) ==
    /\ state' = StateAfter(m)
    /\ animationSpeed' =
          IF TypeOf(m) = "audio" THEN SpeedFor(m.level) ELSE animationSpeed
    /\ targetSunRadius' =
          IF TypeOf(m) = "audio" THEN RadiusFor(m.level) ELSE targetSunRadius
    /\ agentView' =
          IF RefreshesAgent(m) THEN AgentStatusOf(state') ELSE agentView
    /\ speakerView' =
          IF RefreshesSpeaker(m) THEN SpeakerStatusOf(state') ELSE speakerView
    /\ vadView' =
          IF RefreshesVAD(m) THEN VADStatusOf(state') ELSE vadView

\* ws.onmessage with a frame that parses to m
Receive(s, m) ==
    /\ sock[s] = "OPEN"
    /\ lastMsg' = m
    /\ repeated' = (m = lastMsg)
    /\ handleMessage(m)
    /\ runStart' = IF targetSunRadius' # targetSunRadius
                      THEN sunRadius ELSE runStart
    /\ runLen' = IF targetSunRadius' # targetSunRadius THEN 0 ELSE runLen
    /\ UNCHANGED <<connVars, sent, console, renderVars, envVars>>

OnMessage(s, m) == Receive(s, m) /\ UNCHANGED handled

\* Variant in which a frame that does not parse takes the connection down.
OnMessageMalformedClosing(s) ==
    /\ sock[s] = "OPEN"
    /\ sock' = [sock EXCEPT ![s] = "FAILED"]
    /\ console' = "Uncaught SyntaxError"
    /\ UNCHANGED <<loaded, ws, timers, connView, signalVars, viewVars, sent,
                   msgVars, renderVars, runVars, envVars>>

\* ws.onmessage with a frame that is not JSON: JSON.parse throws, the
\* handler ends there and the runtime reports the uncaught exception.
OnMessageMalformed(s) ==
    /\ sock[s] = "OPEN"
    /\ console' = "Uncaught SyntaxError"
    /\ UNCHANGED <<connVars, signalVars, viewVars, sent, msgVars,
                   renderVars, runVars, envVars>>

\* The same handler, with the message also entered in the history.
OnMessageLogged(s, m) ==
    /\ Len(handled) < MaxLog
    /\ Receive(s, m)
    /\ handled' = Append(handled, m)

\* ---------------------------------------------------------- agent control
\* Variant of the guard that only tests for a socket object.
NotConnectedNullOnly == ws = 0

\* The guard of toggleAgent: !ws || ws.readyState !== WebSocket.OPEN
NotConnected == ws = 0 \/ sock[ws] # "OPEN"

\* Variant of the choice with the two commands exchanged.
CommandInverted ==
    IF state.running THEN [type |-> "start"] ELSE [type |-> "stop"]

\* The command toggleAgent picks.
Command == IF state.running THEN [type |-> "stop"] ELSE [type |-> "start"]

\* Variant that also flips the local flag when it transmits.
toggleAgentOptimistic ==
    /\ IF NotConnected
         THEN /\ console' = "WebSocket not connected"
              /\ sent' = sent
              /\ state' = state
         ELSE /\ Len(sent) < MaxSent
              /\ sent' = Append(sent, Command)
              /\ console' = console
              /\ state' = [state EXCEPT !.running = ~state.running]
    /\ UNCHANGED <<connVars, animationSpeed, targetSunRadius, viewVars,
                   msgVars, renderVars, runVars, envVars>>

toggleAgent ==
    /\ IF NotConnected
         THEN /\ console' = "WebSocket not connected"
              /\ sent' = sent
         ELSE /\ Len(sent) < MaxSent
              /\ sent' = Append(sent, Command)
              /\ console' = console
    /\ UNCHANGED <<connVars, signalVars, viewVars, msgVars,
                   renderVars, runVars, envVars>>

\* ----------------------------------------------------------- render loop
\* drawSolarSystem(), run from a pending requestAnimationFrame callback; it
\* ends by requesting the next one.  (The occasional background star is
\* drawn and forgotten; it leaves no state.)
drawSolarSystem ==
    /\ rafPending > 0
    /\ sunRadius' = Smoothed(sunRadius, targetSunRadius)
    /\ sunPulse' = RAdd(sunPulse, Rat(5, 100))
    /\ glowTier' = GlowTierOf(state)
    /\ planets' = PlanetsAfter(planets,
                               SpeedMultiplier(state, animationSpeed))
    /\ rafPending' = (rafPending - 1) + Len(Requested)
    /\ frameNo' = frameNo + 1
    /\ runLen' = runLen + 1
    /\ UNCHANGED <<connVars, signalVars, viewVars, sent, console, msgVars,
                   runStart, envVars>>

RenderFrame == frameNo < MaxFrames /\ drawSolarSystem
OrbitFrame == frameNo < MaxOrbitFrames /\ drawSolarSystem
SmoothFrame == frameNo < MaxSmoothFrames /\ drawSolarSystem

\* ------------------------------------------------------------------ system
Next ==
    \/ DOMContentLoaded
    \/ \E s \in Slots : OnOpen(s)
    \/ \E s \in Slots : OnClose(s)
    \/ \E s \in Slots : OnError(s)
    \/ Tick
    \/ \E i \in 1..Len(timers) : TimerFire(i)
    \/ \E s \in Slots, m \in Msgs : OnMessage(s, m)
    \/ \E s \in Slots : OnMessageMalformed(s)
    \/ toggleAgent

Spec == Init /\ [][Next]_vars

\* The messages drawn when the history is kept.
HistMsgs ==
    [type : {"state"}, running : BOOLEAN, speaker_verified : BOOLEAN,
     speaker_score : {Rat(87, 100)}, vad_speaking : BOOLEAN]
      \cup StatusMsgs
      \cup [type : {"speaker"}, verified : BOOLEAN, score : {Rat(1, 8)}]
      \cup VadMsgs
      \cup {[type |-> "audio", level |-> -30], [type |-> "ping"]}

NextHistory ==
    \/ DOMContentLoaded
    \/ \E s \in Slots : OnOpen(s)
    \/ \E s \in Slots : OnClose(s)
    \/ \E s \in Slots : OnError(s)
    \/ Tick
    \/ \E i \in 1..Len(timers) : TimerFire(i)
    \/ \E s \in Slots, m \in HistMsgs : OnMessageLogged(s, m)
    \/ toggleAgent

SpecHistory == Init /\ [][NextHistory]_vars

\* The messages drawn when frames interleave with every other event.
RenderMsgs ==
    [type : {"state"}, running : {TRUE}, speaker_verified : {TRUE},
     speaker_score : {Rat(1, 8)}, vad_speaking : {TRUE}]
      \cup StatusMsgs
      \cup [type : {"speaker"}, verified : BOOLEAN, score : {Rat(1, 8)}]
      \cup VadMsgs
      \cup [type : {"audio"}, level : {-90}]
      \cup {[type |-> "ping"]}

NextRender ==
    \/ DOMContentLoaded
    \/ \E s \in Slots : OnOpen(s)
    \/ \E s \in Slots : OnClose(s)
    \/ \E s \in Slots : OnError(s)
    \/ Tick
    \/ \E i \in 1..Len(timers) : TimerFire(i)
    \/ \E s \in Slots, m \in RenderMsgs : OnMessage(s, m)
    \/ \E s \in Slots : OnMessageMalformed(s)
    \/ toggleAgent
    \/ RenderFrame

SpecRender == Init /\ [][NextRender]_vars

\* The orbits on their own: a connection that opens, speech starting and
\* stopping, and frames.
NextOrbit ==
    \/ DOMContentLoaded
    \/ \E s \in Slots : OnOpen(s)
    \/ \E s \in Slots, m \in VadMsgs : OnMessage(s, m)
    \/ OrbitFrame

SpecOrbit == Init /\ [][NextOrbit]_vars

\* The smoothing on its own: a connection that opens, a few audio messages
\* (entered in the history, which bounds their number), and frames.
SmoothMsgs == [type : {"audio"}, level : {-60, 0}]

OnAudioLogged(s, m) ==
    /\ Len(handled) < MaxAudio
    /\ Receive(s, m)
    /\ handled' = Append(handled, m)

NextSmooth ==
    \/ DOMContentLoaded
    \/ \E s \in Slots : OnOpen(s)
    \/ \E s \in Slots, m \in SmoothMsgs : OnAudioLogged(s, m)
    \/ SmoothFrame

SpecSmooth == Init /\ [][NextSmooth]_vars

\* The control button pressed again and again: toggleAgent as above, with
\* room for more than one command, the messages that set running and a few
\* that do not (entered in the history), and the connection events.
toggleAgentRepeated ==
    /\ IF NotConnected
         THEN /\ console' = "WebSocket not connected"
              /\ sent' = sent
         ELSE /\ Len(sent) < MaxToggles
              /\ sent' = Append(sent, Command)
              /\ console' = console
    /\ UNCHANGED <<connVars, signalVars, viewVars, msgVars,
                   renderVars, runVars, envVars>>

ToggleMsgs ==
    StatusMsgs
      \cup [type : {"state"}, running : {TRUE}, speaker_verified : {TRUE},
            speaker_score : {Rat(87, 100)}, vad_speaking : {FALSE}]
      \cup {[type |-> "vad", speaking |-> TRUE], [type |-> "ping"]}

NextToggle ==
    \/ DOMContentLoaded
    \/ \E s \in Slots : OnOpen(s)
    \/ \E s \in Slots : OnClose(s)
    \/ \E s \in Slots : OnError(s)
    \/ Tick
    \/ \E i \in 1..Len(timers) : TimerFire(i)
    \/ \E s \in Slots, m \in ToggleMsgs : OnMessageLogged(s, m)
    \/ toggleAgentRepeated

SpecToggle == Init /\ [][NextToggle]_vars

\* The connection against a backend that comes and goes.  A connecting
\* socket is accepted while the backend is up and refused while it is down;
\* an open socket can be lost at any time.
BackendFails ==
    /\ backendUp
    /\ backendUp' = FALSE
    /\ UNCHANGED <<connVars, signalVars, viewVars, sent, console, msgVars,
                   renderVars, runVars, refused>>

BackendRecovers ==
    /\ ~backendUp
    /\ backendUp' = TRUE
    /\ UNCHANGED <<connVars, signalVars, viewVars, sent, console, msgVars,
                   renderVars, runVars, refused>>

Accept(s) == backendUp /\ OnOpen(s)

Refuse(s) ==
    /\ ~backendUp
    /\ sock[s] = "CONNECTING"
    /\ Closed(s)
    /\ refused' = TRUE
    /\ backendUp' = backendUp

RefuseWithError(s) == ~backendUp /\ sock[s] = "CONNECTING" /\ OnError(s)
CloseAfterError(s) == sock[s] = "FAILED" /\ OnClose(s)
Drop(s) == sock[s] = "OPEN" /\ OnClose(s)

NextFair ==
    \/ DOMContentLoaded
    \/ \E s \in Slots : Accept(s)
    \/ \E s \in Slots : Refuse(s)
    \/ \E s \in Slots : RefuseWithError(s)
    \/ \E s \in Slots : CloseAfterError(s)
    \/ \E s \in Slots : Drop(s)
    \/ Tick
    \/ \E i \in 1..Len(timers) : TimerFire(i)
    \/ toggleAgent
    \/ RenderFrame
    \/ BackendFails
    \/ BackendRecovers

\* The page loads, timers run down and fire, and a socket that is
\* connecting or has failed gets its next event.
SpecFair ==
    /\ Init
    /\ [][NextFair]_vars
    /\ WF_vars(DOMContentLoaded)
    /\ WF_vars(Tick)
    /\ WF_vars(\E i \in 1..Len(timers) : TimerFire(i))
    /\ WF_vars(\E s \in Slots : Accept(s))
    /\ WF_vars(\E s \in Slots : Refuse(s))
    /\ WF_vars(\E s \in Slots : CloseAfterError(s))

\* ================================================================ claims

\* C1: every close event (a failed attempt included) shows "disconnected"
\* and schedules exactly one reconnect timer of 2000 ms, however many closes
\* came before; a timer's remaining time only runs down with time, and it
\* fires only when none is left, by creating a new connecting socket that
\* `ws` then refers to.
CloseSchedulesOneReconnect ==
    /\ [][\A s \in Slots :
            (sock[s] \in {"CONNECTING", "OPEN", "FAILED"}
                /\ sock'[s] = "CLOSED")
            => /\ connView' = "disconnected"
               /\ timers' = Append(timers, 2000)]_vars
    /\ [][Len(timers') < Len(timers)
            => /\ \E i \in 1..Len(timers) :
                    /\ timers[i] = 0
                    /\ timers' = [j \in 1..(Len(timers) - 1) |->
                                    IF j < i THEN timers[j] ELSE timers[j + 1]]
               /\ ws' \in Slots
               /\ sock[ws'] \notin {"CONNECTING", "OPEN", "FAILED"}
               /\ sock'[ws'] = "CONNECTING"]_vars
    /\ [][Len(timers') >= Len(timers)
            => \/ \A i \in 1..Len(timers) : timers'[i] = timers[i]
               \/ /\ Len(timers') = Len(timers)
                  /\ \A i \in 1..Len(timers) :
                        /\ timers'[i] >= 0
                        /\ timers'[i] <= timers[i]
                        /\ timers[i] - timers'[i] <= TickMs]_vars

\* A socket has closed, the page shows "disconnected" and one full-length
\* reconnect timer is pending.
ReconnectScheduled ==
    /\ ws # 0
    /\ sock[ws] = "CLOSED"
    /\ timers = <<2000>>
    /\ connView = "disconnected"
    /\ console = "WebSocket disconnected"

\* C2: at most one socket is live (connecting, open, or failed with its
\* close event still to come) in every reachable state, and a socket is
\* only ever created while no other socket is live.
AtMostOneLiveConnection ==
    /\ [](Cardinality({s \in Slots :
                sock[s] \in {"CONNECTING", "OPEN", "FAILED"}}) <= 1)
    /\ [][\A s \in Slots :
            (sock[s] \notin {"CONNECTING", "OPEN", "FAILED"}
                /\ sock'[s] = "CONNECTING")
            => \A t \in Slots :
                  sock[t] \notin {"CONNECTING", "OPEN", "FAILED"}]_vars

\* A reconnect attempt is in flight: the page still shows the earlier
\* disconnect and the one live socket is the new one.
ReconnectAttemptLive ==
    /\ connView = "disconnected"
    /\ ws # 0
    /\ sock[ws] = "CONNECTING"
    /\ timers = <<>>

\* C3: toggleAgent while the connection is not open sends no frame and
\* leaves running, the other state fields, the animation targets and the
\* views unchanged; a frame is only ever sent while the socket is open.
ToggleGatedOnOpen ==
    /\ [][((ws = 0 \/ sock[ws] # "OPEN") /\ toggleAgent)
            => UNCHANGED <<sent, state, animationSpeed, targetSunRadius,
                           agentView, speakerView, vadView, connView>>]_vars
    /\ [][sent' # sent => (ws # 0 /\ sock[ws] = "OPEN")]_vars

\* The control was used while the socket was closed and a reconnect was
\* pending: the refusal was logged and nothing was sent.
ToggleRefusedWhileClosed ==
    /\ console = "WebSocket not connected"
    /\ ws # 0
    /\ sock[ws] = "CLOSED"
    /\ timers # <<>>
    /\ sent = <<>>

\* Positions in the history of the messages of the given types.
Writers(types) == {i \in 1..Len(handled) : TypeOf(handled[i]) \in types}
Latest(S) == CHOOSE i \in S : \A j \in S : j <= i

\* C4: each of running, speakerVerified, speakerScore and vadSpeaking holds
\* the value carried by the most recent handled message whose type writes
\* it, or its initial default when there is none.
LastWriteWins ==
    LET R == Writers({"state", "status"})
        S == Writers({"state", "speaker"})
        V == Writers({"state", "vad"})
    IN  /\ state.running =
              IF R = {} THEN FALSE ELSE handled[Latest(R)].running
        /\ state.speakerVerified =
              IF S = {} THEN FALSE
              ELSE IF TypeOf(handled[Latest(S)]) = "state"
                   THEN handled[Latest(S)].speaker_verified
                   ELSE handled[Latest(S)].verified
        /\ state.speakerScore =
              IF S = {} THEN [n |-> 0, d |-> 1]
              ELSE IF TypeOf(handled[Latest(S)]) = "state"
                   THEN handled[Latest(S)].speaker_score
                   ELSE handled[Latest(S)].score
        /\ state.vadSpeaking =
              IF V = {} THEN FALSE
              ELSE IF TypeOf(handled[Latest(V)]) = "state"
                   THEN handled[Latest(V)].vad_speaking
                   ELSE handled[Latest(V)].speaking

\* A status message overwrote the running flag of an earlier state message
\* and a later message of another type left it alone.
StatusOverwroteThenKept ==
    /\ Len(handled) = 3
    /\ TypeOf(handled[1]) = "state" /\ handled[1].running
    /\ TypeOf(handled[2]) = "status" /\ ~handled[2].running
    /\ TypeOf(handled[3]) = "speaker"
    /\ ~state.running
    /\ state.vadSpeaking = handled[1].vad_speaking

\* p is x * 100 rounded to the nearest integer, halves up.
IsRoundedPercent(p, x) ==
    /\ 2 * p * x.d <= 200 * x.n + x.d
    /\ 200 * x.n + x.d < 2 * (p + 1) * x.d

\* C5 as stated: after a speaker message with verified = true and score s
\* the badge shows "Verified" and the fill is round(s * 100) percent, in
\* whatever state the message arrives.
SpeakerMessageShowsVerified ==
    (TypeOf(lastMsg) = "speaker" /\ lastMsg.verified)
    => /\ speakerView.badge = "verified"
       /\ IsRoundedPercent(speakerView.percent, lastMsg.score)
       /\ (lastMsg.score = [n |-> 87, d |-> 100]
              => speakerView.percent = 87)

\* C5 amended: after a speaker message with verified = true and score s the
\* fill is round(s * 100) percent; the badge shows "Verified" when running
\* is true and "Waiting..." (unknown) when running is false.
SpeakerMessageShowsVerifiedIfRunning ==
    (TypeOf(lastMsg) = "speaker" /\ lastMsg.verified)
    => /\ speakerView.badge =
              IF state.running THEN "verified" ELSE "unknown"
       /\ IsRoundedPercent(speakerView.percent, lastMsg.score)
       /\ (lastMsg.score = [n |-> 87, d |-> 100]
              => speakerView.percent = 87)

\* The scenario of the claim, with the agent running.
SpeakerVerifiedAt87 ==
    /\ TypeOf(lastMsg) = "speaker"
    /\ lastMsg.verified
    /\ lastMsg.score = [n |-> 87, d |-> 100]
    /\ state.running
    /\ speakerView = [badge |-> "verified", percent |-> 87]

\* C6: once a message has been handled, the agent, speaker and VAD views
\* each show what their presenter computes from the current state record.
ViewsShowCurrentState ==
    lastMsg # NoMsg
    => /\ agentView = AgentStatusOf(state)
       /\ speakerView = SpeakerStatusOf(state)
       /\ vadView = VADStatusOf(state)

\* C7: handling a state message equal to the message handled just before
\* it leaves the state record and the agent, speaker and VAD views as they
\* were.
StateMessageIdempotent ==
    [][\A s \in Slots, m \in StateMsgs :
          (lastMsg = m /\ OnMessage(s, m))
          => UNCHANGED <<state, agentView, speakerView, vadView>>]_vars

\* The same state message has just been handled twice in a row.
StateMessageRepeated ==
    /\ repeated
    /\ TypeOf(lastMsg) = "state"
    /\ lastMsg.running /\ lastMsg.vad_speaking
    /\ state.running /\ state.vadSpeaking
    /\ vadView = "speaking"

\* C8: a message whose type is none of state, status, speaker, vad, audio
\* (or that has no type) changes no state field, neither animation target
\* and no view, logs nothing and sends nothing.
UnknownTypeIgnored ==
    [][\A s \in Slots, m \in Msgs :
          (TypeOf(m) \notin {"state", "status", "speaker", "vad", "audio"}
              /\ OnMessage(s, m))
          => UNCHANGED <<state, animationSpeed, targetSunRadius, agentView,
                         speakerView, vadView, connView, sent, console>>]_vars

\* A message without a type field was handled while the agent was shown
\* running and speaking.
UntypedMessageHandled ==
    /\ lastMsg = [running |-> TRUE]
    /\ state.running /\ state.vadSpeaking
    /\ agentView = "online"

ClampInt(x, lo, hi) == IF x < lo THEN lo ELSE IF x > hi THEN hi ELSE x

\* C9: after an audio message with level L, animationSpeed is
\* clamp((L + 80) / 20, 0.5, 3): 0.5 at -80, 1 at -60, 3 at 0; and in every
\* state animationSpeed lies in [0.5, 3].
SpeedIsClampedLevel ==
    /\ animationSpeed.d > 0
    /\ animationSpeed.d <= 2 * animationSpeed.n
    /\ animationSpeed.n <= 3 * animationSpeed.d
    /\ TypeOf(lastMsg) = "audio"
        => /\ 20 * animationSpeed.n
                = animationSpeed.d * ClampInt(lastMsg.level + 80, 10, 60)
           /\ lastMsg.level = -80 => animationSpeed = [n |-> 1, d |-> 2]
           /\ lastMsg.level = -60 => animationSpeed = [n |-> 1, d |-> 1]
           /\ lastMsg.level = 0 => animationSpeed = [n |-> 3, d |-> 1]

\* A level below the lower clamping point was handled.
SpeedAtLowerClamp ==
    /\ TypeOf(lastMsg) = "audio"
    /\ lastMsg.level = -90
    /\ animationSpeed = [n |-> 1, d |-> 2]

\* C10: after an audio message with level L, targetSunRadius is
\* 15 + max(0, (L + 60) / 3): 15 at -60 and at -90, 35 at 0; and in every
\* state targetSunRadius is at least 15.
RadiusIsFlooredLevel ==
    /\ targetSunRadius.d > 0
    /\ 15 * targetSunRadius.d <= targetSunRadius.n
    /\ TypeOf(lastMsg) = "audio"
        => /\ 3 * targetSunRadius.n
                = targetSunRadius.d
                    * (45 + (IF lastMsg.level + 60 > 0
                                THEN lastMsg.level + 60 ELSE 0))
           /\ lastMsg.level = -60 => targetSunRadius = [n |-> 15, d |-> 1]
           /\ lastMsg.level = -90 => targetSunRadius = [n |-> 15, d |-> 1]
           /\ lastMsg.level = 0 => targetSunRadius = [n |-> 35, d |-> 1]

\* A level between floor and ceiling was handled.
RadiusAboveFloor ==
    /\ TypeOf(lastMsg) = "audio"
    /\ lastMsg.level = -30
    /\ targetSunRadius = [n |-> 25, d |-> 1]


\* C11: in every frame drawn the glow tier is the first that applies of
\* speaking (vadSpeaking), verified (speakerVerified), running (running) and
\* idle, for every combination of the three flags; with vadSpeaking and
\* speakerVerified both true it is the speaking tier.  The tier changes in
\* no other step.
GlowTierByPriority ==
    [][/\ frameNo' # frameNo =>
            /\ state.vadSpeaking => glowTier' = "speaking"
            /\ (~state.vadSpeaking /\ state.speakerVerified)
                  => glowTier' = "verified"
            /\ (~state.vadSpeaking /\ ~state.speakerVerified
                  /\ state.running) => glowTier' = "running"
            /\ (~state.vadSpeaking /\ ~state.speakerVerified
                  /\ ~state.running) => glowTier' = "idle"
       /\ frameNo' = frameNo => glowTier' = glowTier]_vars

\* A frame was drawn in the speaking tier while the speaker was verified.
SpeakingTierWhileVerified ==
    /\ frameNo > 1
    /\ glowTier = "speaking"
    /\ state.vadSpeaking
    /\ state.speakerVerified
    /\ lastMsg # NoMsg

\* C13: running changes only in a step that handles a state or a status
\* message, and then to the value the message carries; a toggle (sent or
\* refused), any other message, a socket opening, closing or failing, a
\* timer running down or firing, and a frame all leave it as it was.
RunningWrittenByStateOrStatus ==
    [][/\ state'.running # state.running =>
            /\ lastMsg' # NoMsg
            /\ TypeOf(lastMsg') \in {"state", "status"}
            /\ state'.running = lastMsg'.running
            /\ sent' = sent /\ sock' = sock /\ ws' = ws
            /\ timers' = timers /\ frameNo' = frameNo
       /\ (sent' # sent \/ console' = "WebSocket not connected"
             \/ sock' # sock \/ timers' # timers \/ frameNo' # frameNo)
            => state'.running = state.running
       /\ (lastMsg' # NoMsg
             /\ TypeOf(lastMsg') \notin {"state", "status"}
             /\ (lastMsg' # lastMsg \/ repeated' # repeated))
            => state'.running = state.running]_vars

\* A start command went out and a frame was drawn, and running is still off.
ToggleSentRunningUnchanged ==
    /\ sent = <<[type |-> "start"]>>
    /\ ~state.running
    /\ frameNo > 1
    /\ lastMsg # NoMsg
    /\ TypeOf(lastMsg) = "audio"

\* C15: a frame advances every body's angle by exactly its speed times m,
\* with m = 3 while vadSpeaking, else animationSpeed while running, else 0.3
\* (compared in units of 1/20000 radian, which all of them are multiples of);
\* a step that draws no frame leaves every angle as it was.
AnglesAdvanceBySpeedTimesMultiplier ==
    [][/\ frameNo' = frameNo => planets' = planets
       /\ frameNo' # frameNo =>
            \A p \in Planets :
                LET a == planets[p].acc
                    b == planets'[p].acc
                    v == PlanetSpeed[p]
                    m == IF state.vadSpeaking THEN [n |-> 3, d |-> 1]
                         ELSE IF state.running THEN animationSpeed
                         ELSE [n |-> 3, d |-> 10]
                IN  /\ planets'[p].quarters = planets[p].quarters
                    /\ 20000 % a.d = 0 /\ 20000 % b.d = 0
                    /\ 1000 % v.d = 0 /\ 20 % m.d = 0
                    /\ b.n * (20000 \div b.d)
                         = a.n * (20000 \div a.d)
                             + (v.n * (1000 \div v.d)) * (m.n * (20 \div m.d))]_vars

\* Mercury after the idle frame of the script load and a frame drawn while
\* running, not speaking, at animationSpeed 0.5: 0.04 * (0.3 + 0.5) = 0.032.
MercuryAfterIdleAndRunningFrame ==
    /\ frameNo = 2
    /\ state.running /\ ~state.vadSpeaking
    /\ animationSpeed = [n |-> 1, d |-> 2]
    /\ planets[1] = [quarters |-> 0, acc |-> [n |-> 4, d |-> 125]]

\* C17: no step lowers a body's angle, whatever messages arrive between
\* frames: after every step each angle is at least what it was before.
AnglesNeverDecrease ==
    [][\A p \in Planets :
          /\ planets'[p].quarters = planets[p].quarters
          /\ planets'[p].acc.n * planets[p].acc.d
                >= planets[p].acc.n * planets'[p].acc.d]_vars

\* Neptune after the idle frame and a running frame at the lowest
\* animationSpeed, set by an audio message in between: 0.004 * (0.3 + 0.5).
NeptuneAfterQuietAudio ==
    /\ frameNo = 2
    /\ TypeOf(lastMsg) = "audio"
    /\ state.running /\ ~state.vadSpeaking
    /\ animationSpeed = [n |-> 1, d |-> 2]
    /\ planets[8] = [quarters |-> 7, acc |-> [n |-> 2, d |-> 625]]

\* C18: the first frame is drawn at script load, when no socket exists yet
\* (none exists until the page has loaded); and at every moment between
\* frames, in every state of the connection, exactly one frame callback is
\* pending, which is all the next frame waits for.
RenderLoopAlwaysArmed ==
    /\ frameNo >= 1
    /\ (~loaded => (ws = 0 /\ \A s \in Slots : sock[s] = "NONE"))
    /\ rafPending = 1

\* Frames have been drawn, the socket has closed and the reconnect timer is
\* running; one callback is pending.
ArmedWhileAwaitingReconnect ==
    /\ frameNo > 1
    /\ rafPending = 1
    /\ ws # 0 /\ sock[ws] = "CLOSED"
    /\ timers # <<>>

\* |x - t| as a long natural over the denominator x.d * t.d, for a long
\* fraction x and a fraction t of small integers.
GapNumerator(x, t) ==
    BigAbsDiff(BigMulSmall(x.n, t.d), BigMulSmall(x.d, t.n))

\* C12 as stated: 30 frames after the target took the value T, with the
\* radius then at R0, the radius is within 5% of |T - R0| of T, strictly:
\* 20 * |r - T| < |T - R0|, for every R0 and T.
RadiusWithinFivePercentAfter30 ==
    runLen = 30 =>
        BigLess(BigMulSmall(BigMul(GapNumerator(sunRadius, targetSunRadius),
                                   runStart.d), 20),
                BigMul(GapNumerator(runStart, targetSunRadius), sunRadius.d))

\* C12: the same when R0 differs from T; when R0 equals T the radius is
\* exactly T after the 30 frames (and 0 is not less than 5% of 0).
RadiusWithinFivePercentUnlessAtTarget ==
    runLen = 30 =>
        IF GapNumerator(runStart, targetSunRadius) = <<>>
          THEN GapNumerator(sunRadius, targetSunRadius) = <<>>
          ELSE BigLess(
                 BigMulSmall(BigMul(GapNumerator(sunRadius, targetSunRadius),
                                    runStart.d), 20),
                 BigMul(GapNumerator(runStart, targetSunRadius),
                        sunRadius.d))

\* Thirty frames toward 35, begun part of the way from 18 down to 15.
ThirtyFramesTowardLoudTarget ==
    /\ runLen = 30
    /\ targetSunRadius = [n |-> 35, d |-> 1]
    /\ Len(handled) = 2
    /\ runStart # FirstSunRadius
    /\ GapNumerator(runStart, targetSunRadius) # <<>>

\* C16 as stated: every stored angle lies in [0, 2 pi).  With the angle kept
\* as quarters * pi / 4 + acc, and 3.1416 more than pi, that requires
\* 0 <= quarters, 0 <= acc and acc < (8 - quarters) * 3.1416 / 4.
AnglesBelowFullTurn ==
    \A p \in Planets :
        /\ planets[p].quarters >= 0
        /\ planets[p].acc.n >= 0
        /\ planets[p].acc.n * 40000
              < (8 - planets[p].quarters) * 31416 * planets[p].acc.d

\* C16: the stored angle is never reduced: it is the starting angle plus
\* everything the frames have added, at least 0.3 * speed per frame drawn,
\* and so passes 2 pi and keeps growing.
AnglesAccumulateUnwrapped ==
    \A p \in Planets :
        /\ planets[p].quarters = p - 1
        /\ planets[p].acc.n * 10 * PlanetSpeed[p].d
              >= 3 * PlanetSpeed[p].n * frameNo * planets[p].acc.d

\* Mercury, started at angle 0, stands beyond one full turn (6.2832).
MercuryPastFullTurn ==
    /\ planets[1].quarters = 0
    /\ planets[1].acc.n * 10000 >= 62832 * planets[1].acc.d
    /\ frameNo > 50

\* C19: a step in which a socket fails with an error event writes the log
\* line and nothing else: the connection indicator, the pending timers, the
\* socket `ws` refers to, every other socket, the state record, the speed,
\* the target radius, the views and the frames sent stay as they were.  A
\* reconnect timer is added only in a step in which a socket closes.
ErrorIsOnlyLogged ==
    [][/\ \A s \in Slots :
            (sock[s] \in {"CONNECTING", "OPEN"} /\ sock'[s] = "FAILED")
            => /\ console' = "WebSocket error"
               /\ connView' = connView
               /\ timers' = timers
               /\ ws' = ws
               /\ \A t \in Slots \ {s} : sock'[t] = sock[t]
               /\ state' = state
               /\ animationSpeed' = animationSpeed
               /\ targetSunRadius' = targetSunRadius
               /\ agentView' = agentView
               /\ speakerView' = speakerView
               /\ vadView' = vadView
               /\ sent' = sent
       /\ Len(timers') > Len(timers)
            => \E s \in Slots :
                  /\ sock[s] \in {"CONNECTING", "OPEN", "FAILED"}
                  /\ sock'[s] = "CLOSED"]_vars

\* An open socket has failed with an error: the indicator still shows
\* connected, no reconnect is scheduled, and the state is as the last
\* message left it.
ErrorLoggedNothingElse ==
    /\ console = "WebSocket error"
    /\ ws # 0 /\ sock[ws] = "FAILED"
    /\ connView = "connected"
    /\ timers = <<>>
    /\ state.running
    /\ agentView = "online"

\* C20: a step in which a frame fails to parse reports the exception and
\* changes nothing else: the state record, the speed, the target radius, the
\* views, the indicator, every socket, `ws` and the timers stay as they
\* were, and no message reaches the router.  The socket is still open, and
\* a state, status or vad message handled after such a fault is stored and
\* shown as usual.
MalformedFrameChangesNothing ==
    [][/\ (console' = "Uncaught SyntaxError" /\ console' # console)
            => /\ state' = state
               /\ animationSpeed' = animationSpeed
               /\ targetSunRadius' = targetSunRadius
               /\ agentView' = agentView
               /\ speakerView' = speakerView
               /\ vadView' = vadView
               /\ connView' = connView
               /\ sock' = sock
               /\ ws' = ws
               /\ timers' = timers
               /\ lastMsg' = lastMsg
               /\ repeated' = repeated
               /\ \E s \in Slots : sock'[s] = "OPEN"
       /\ (console = "Uncaught SyntaxError" /\ console' = console
             /\ lastMsg' # lastMsg)
            => /\ TypeOf(lastMsg') \in {"state", "status"}
                  => /\ state'.running = lastMsg'.running
                     /\ agentView' =
                          (IF lastMsg'.running THEN "online" ELSE "offline")
               /\ TypeOf(lastMsg') = "vad"
                  => /\ state'.vadSpeaking = lastMsg'.speaking
                     /\ vadView' =
                          (IF lastMsg'.speaking THEN "speaking" ELSE "silent")
               /\ TypeOf(lastMsg') = "state"
                  => /\ state'.speakerVerified = lastMsg'.speaker_verified
                     /\ state'.vadSpeaking = lastMsg'.vad_speaking]_vars

\* A frame has failed to parse on the open socket: it is still open, the
\* indicator shows connected, no timer is pending and the state is as the
\* last valid message left it.
MalformedFrameSurvived ==
    /\ console = "Uncaught SyntaxError"
    /\ ws # 0 /\ sock[ws] = "OPEN"
    /\ connView = "connected"
    /\ timers = <<>>
    /\ state.running
    /\ agentView = "online"
    /\ TypeOf(lastMsg) = "status"

\* C14: whenever the socket `ws` refers to has closed (after a drop, a
\* failure or a refused attempt), a new connecting socket eventually takes
\* its place; and if from some point on the backend stays up, an indicator
\* showing disconnected is eventually followed by one showing connected,
\* however many attempts were refused before.
FaultsAlwaysRecovered ==
    /\ (ws # 0 /\ sock[ws] = "CLOSED") ~> (ws # 0 /\ sock[ws] = "CONNECTING")
    /\ (<>[]backendUp) =>
          ((connView = "disconnected") ~> (connView = "connected"))

\* An attempt was refused while the backend was down, and the page is
\* connected again.
ConnectedAfterRefusal ==
    /\ refused
    /\ backendUp
    /\ ws # 0 /\ sock[ws] = "OPEN"
    /\ connView = "connected"
    /\ timers = <<>>

\* C22: a step in which a socket is created, opens, fails or closes, or in
\* which a reconnect timer is added, runs down or fires, leaves the state
\* record, the speed, the target radius and the agent, speaker and VAD views
\* exactly as they were.
ConnectionEventsKeepSignals ==
    [][(sock' # sock \/ ws' # ws \/ timers' # timers \/ connView' # connView
          \/ loaded' # loaded)
         => /\ state' = state
            /\ animationSpeed' = animationSpeed
            /\ targetSunRadius' = targetSunRadius
            /\ agentView' = agentView
            /\ speakerView' = speakerView
            /\ vadView' = vadView]_vars

\* The socket has closed, the timer has fired and the next attempt is
\* connecting; what the messages of the lost connection stored is still there.
SignalsKeptWhileReconnecting ==
    /\ ws # 0 /\ sock[ws] = "CONNECTING"
    /\ connView = "disconnected"
    /\ timers = <<>>
    /\ state.running /\ state.speakerVerified /\ state.vadSpeaking
    /\ state.speakerScore = [n |-> 87, d |-> 100]
    /\ agentView = "online"
    /\ speakerView.badge = "verified"
    /\ vadView = "speaking"

\* C23: at most one reconnect timer is pending, and while one is pending no
\* socket is connecting or open.
OneTimerAndNoLiveSocket ==
    /\ Len(timers) <= 1
    /\ timers # <<>> => \A s \in Slots : sock[s] \notin {"CONNECTING", "OPEN"}

\* The reconnect timer is half way down and no socket is live.
TimerRunningNoSocket ==
    /\ Len(timers) = 1
    /\ timers[1] > 0 /\ timers[1] < ReconnectDelay
    /\ ws # 0 /\ sock[ws] = "CLOSED"
    /\ \A s \in Slots : sock[s] \notin {"CONNECTING", "OPEN", "FAILED"}

\* C24: once an open or close event has been handled, the indicator shows
\* connected while the socket `ws` refers to is open, and disconnected while
\* it is connecting or has closed; it turns to connected only in the step in
\* which that socket opens, to disconnected only in the step in which its
\* close event is handled, and no other step changes it (so a socket that
\* has failed after opening keeps it on connected until its close event).
IndicatorFollowsOpenAndClose ==
    /\ [](connView # "html" =>
            /\ ws # 0
            /\ connView \in {"connected", "disconnected"}
            /\ sock[ws] = "OPEN" => connView = "connected"
            /\ sock[ws] \in {"CONNECTING", "CLOSED"}
                  => connView = "disconnected"
            /\ connView = "connected" => sock[ws] \in {"OPEN", "FAILED"})
    /\ [][connView' # connView =>
            \/ /\ connView' = "connected"
               /\ ws' = ws
               /\ sock[ws] = "CONNECTING" /\ sock'[ws] = "OPEN"
            \/ /\ connView' = "disconnected"
               /\ ws' = ws
               /\ sock[ws] \in {"CONNECTING", "OPEN", "FAILED"}
               /\ sock'[ws] = "CLOSED"]_vars

\* A second cycle: a command went out while a socket was open, that socket
\* has closed, and the socket made by the reconnect timer has not opened
\* yet; the indicator shows disconnected.
IndicatorOffUntilReopened ==
    /\ sent # <<>>
    /\ ws # 0 /\ sock[ws] = "CONNECTING"
    /\ connView = "disconnected"
    /\ timers = <<>>

\* C21: a step that transmits happens with the socket open, appends exactly
\* one frame to those sent, stop if running is true at that moment and start
\* otherwise, and leaves the state record as it was; and the frame differs
\* from the one transmitted before it only if a state or status message
\* carrying the present value of running has been handled.
ToggleSendsOneCommandByRunning ==
    [][sent' # sent =>
          /\ ws # 0 /\ sock[ws] = "OPEN"
          /\ Len(sent') = Len(sent) + 1
          /\ SubSeq(sent', 1, Len(sent)) = sent
          /\ sent'[Len(sent')] =
                (IF state.running THEN [type |-> "stop"]
                                  ELSE [type |-> "start"])
          /\ state' = state
          /\ (Len(sent) > 0 /\ sent'[Len(sent')] # sent[Len(sent)])
                => \E i \in 1..Len(handled) :
                      /\ TypeOf(handled[i]) \in {"state", "status"}
                      /\ handled[i].running = state.running]_vars

\* Two presses while running is true, with no message in between that turned
\* it off: stop went out twice.
StopSentTwice ==
    /\ sent = <<[type |-> "stop"], [type |-> "stop"]>>
    /\ state.running
    /\ ws # 0 /\ sock[ws] = "OPEN"
    /\ \A i \in 1..Len(handled) :
          TypeOf(handled[i]) \in {"state", "status"} => handled[i].running

============================================================================
